---- MODULE Spec2Model ----
(***************************************************************************)
(* A model of the OVSDB client library: the JSON framer (JsonCodec), the   *)
(* protocol adapter (Sender::send, Receiver::receive), the OVSDB value     *)
(* codec (to_ovsdb / from_ovsdb / json_to_ovsdb_value / Serialize) and the *)
(* record glue generated by ovsdb_object (new / to_map / from_map).        *)
(*                                                                         *)
(* JSON values (serde_json::Value) are tagged records:                     *)
(*   [t |-> "null"]              [t |-> "bool", b |-> BOOLEAN]             *)
(*   [t |-> "int", n |-> Int]    a Number holding an integer (as_i64 works)*)
(*   [t |-> "float", f |-> Int]  a Number holding the finite double f.0    *)
(*   [t |-> "str", s |-> STRING] [t |-> "arr", a |-> sequence of values]   *)
(*   [t |-> "obj", o |-> function from a set of keys to values]            *)
(* An object's key order is not represented (serde_json's Map compares     *)
(* and finds members by key).                                              *)
(***************************************************************************)
EXTENDS Integers, Sequences, FiniteSets, TLC

VARIABLES
    \* ---- protocol adapter (client/src/transports/mod.rs) ----
    submitted,      \* frames the RPC engine passed to Sender::send, in order
    sendResults,    \* what each of those calls did: "ok" or "panic"
    written,        \* frames Sender::send wrote to the sink (the transport)
    senderState,    \* "ready", or "panicked" once the send task has aborted
    framed,         \* items the framer's stream yielded to Receiver::receive
    delivered,      \* what each receive call returned to the RPC engine
    receiverState,  \* "ready", "failed" after an Err, "panicked" after an abort
    \* ---- JSON framer (client/src/transports/codec.rs) ----
    sentDocs,       \* documents the peer has sent, in order
    wire,           \* bytes sent by the peer and not yet read into the buffer
    src,            \* JsonCodec::decode's buffer (Framed's read buffer)
    readable,       \* Framed calls decode again only while this holds
    yielded,        \* values decode returned as Ok(Some(_)), in order
    lastDecode,     \* outcome of the last decode call: "init","none","some","err"
    srcBefore,      \* the buffer as it was when the last decode call began
    \* ---- OVSDB value codec (schema/src/lib.rs) ----
    value,          \* the OvsdbValue under test
    valueJson,      \* its serde serialization, once computed
    valueBack,      \* json_to_ovsdb_value of that JSON, once computed
    valuePc,        \* "init" -> "encoded" -> "decoded"
    \* ---- record glue (derive/src/lib.rs) ----
    rec,            \* the record r under test
    recMap,         \* the map from_map is given: to_map(r), or a row received
    recBack,        \* from_map of that map, once computed
    recPc,          \* "init" -> "mapped" -> "parsed"
    \* ---- typed conversions (schema/src/lib.rs, OvsdbSerializableExt) ----
    convTy,         \* the Rust type T the conversion is run for
    convIn,         \* the JSON given to T::from_ovsdb_json or to
                    \* T::deserialize, or the T encoded
    convOut,        \* what the conversion returned, once computed
    convPc          \* "toDecode" -> "decoded", or "toEncode" -> "encoded"

adapterVars == <<submitted, sendResults, written, senderState,
                 framed, delivered, receiverState>>
framerVars == <<sentDocs, wire, src, readable, yielded, lastDecode, srcBefore>>
valueVars == <<value, valueJson, valueBack, valuePc>>
recordVars == <<rec, recMap, recBack, recPc>>
convVars == <<convTy, convIn, convOut, convPc>>
vars == <<adapterVars, framerVars, valueVars, recordVars, convVars>>

----------------------------------------------------------------------------
(* Bounds of the model. *)

\* Frames handled by the adapter in one behaviour, both directions together.
MaxFrames == 2
\* Documents the peer sends in one behaviour of the framer.
MaxDocs == 2
\* Longest set, and longest map, among the OVSDB values under test.
MaxSetLen == 2
MaxMapLen == 1
\* Most entries of a HashMap that is encoded, and most pairs of a ["map", ..]
\* that is decoded into one.
MaxEntries == 2
\* Most keys of a row that from_map is given.
MaxRowKeys == 2
\* Most elements of the params array of a notification.
MaxParams == 3

----------------------------------------------------------------------------
(* serde_json::Value *)

JNull == [t |-> "null"]
JBool(b) == [t |-> "bool", b |-> b]
JInt(n) == [t |-> "int", n |-> n]
JFloat(f) == [t |-> "float", f |-> f]
JStr(s) == [t |-> "str", s |-> s]
JArr(a) == [t |-> "arr", a |-> a]
JObj(o) == [t |-> "obj", o |-> o]

\* Value::as_object(): Some for an object, None for anything else.
IsObject(v) == v.t = "obj"

\* Map::contains_key
ContainsKey(v, key) == key \in DOMAIN v.o

\* Index<&str> for Value: the member, or Null when v is no object or has no
\* such member.
Index(v, key) == IF IsObject(v) /\ ContainsKey(v, key) THEN v.o[key] ELSE JNull

\* Map::remove behind as_object_mut().map(..): a non-object is left as it is.
RemoveKey(v, key) ==
    IF IsObject(v)
    THEN JObj([k \in (DOMAIN v.o) \ {key} |-> v.o[k]])
    ELSE v

\* Map::insert behind as_object_mut().map(..), and IndexMut on an object:
\* the member is added, or replaced when it exists.
InsertKey(v, key, x) ==
    IF IsObject(v)
    THEN JObj([k \in (DOMAIN v.o) \cup {key} |-> IF k = key THEN x ELSE v.o[k]])
    ELSE v

\* An object built from a set of <<key, value>> members with distinct keys.
MakeObj(members) ==
    JObj([k \in {m[1] : m \in members} |->
            (CHOOSE m \in members : m[1] = k)[2]])

----------------------------------------------------------------------------
(* Protocol adapter: the frames it is given. *)

\* Frames the RPC engine submits: requests (the unsubscribe request for
\* "update" among them), with and without jsonrpc and params, and a batch,
\* which is a JSON array.
OutMethod == {{}, {<<"method", JStr("update")>>}, {<<"method", JStr("echo")>>}}
OutJsonrpc == {{}, {<<"jsonrpc", JStr("2.0")>>}}
OutParams == {{}, {<<"params", JArr(<<>>)>>}, {<<"params", JArr(<<JStr("x")>>)>>}}
OutId == {<<"id", JInt(1)>>}
OutObjects == {MakeObj(m \cup j \cup p \cup {i}) :
                  m \in OutMethod, j \in OutJsonrpc, p \in OutParams, i \in OutId}
OutBatch == JArr(<<>>)
OutFrames == OutObjects \cup {OutBatch}

\* Frames the peer sends: responses in its dialect (result and error both
\* present, one of them null), JSON-RPC 2.0 shaped ones, notifications with a
\* null id, and JSON documents that are not objects.
ErrorObject == MakeObj({<<"error", JStr("unknown database")>>})
InResult == {{}, {<<"result", JNull>>}, {<<"result", JArr(<<JStr("db")>>)>>}}
InError == {{}, {<<"error", JNull>>}, {<<"error", ErrorObject>>}}
InId == {{}, {<<"id", JNull>>}, {<<"id", JInt(1)>>}}
InJsonrpc == {{}, {<<"jsonrpc", JStr("2.0")>>}}
InResponses == {MakeObj(r \cup e \cup i \cup j) :
                   r \in InResult, e \in InError, i \in InId, j \in InJsonrpc}
InNotification == MakeObj({<<"method", JStr("update")>>, <<"id", JNull>>,
                           <<"params", JArr(<<JNull, JObj(<<>>)>>)>>})
InOldVersion == MakeObj({<<"jsonrpc", JStr("1.0")>>, <<"id", JInt(1)>>,
                         <<"result", JArr(<<>>)>>})
InObjects == InResponses \cup {InNotification, InOldVersion}
InNonObjects == {JArr(<<>>), JNull}
InFrames == InObjects \cup InNonObjects

----------------------------------------------------------------------------
(* Sender::send *)

\* IsUpdate comparing against another method name.
IsUpdateOtherName(message) == Index(message, "method") = JStr("unsubscribe")

\* message["method"] == json!("update")
IsUpdate(message) == Index(message, "method") = JStr("update")

\* message.as_object_mut().map(|obj| obj.remove("jsonrpc"))
StripJsonrpc(message) == RemoveKey(message, "jsonrpc")

\* EnsureParams without its test: params is set to [] in every frame.
EnsureParamsAlways(message) == InsertKey(message, "params", JArr(<<>>))

\* if !message.as_object().unwrap().contains_key("params")
\*     { message["params"] = json!([]) }        (the unwrap is in send)
EnsureParams(message) ==
    IF ~ContainsKey(message, "params")
    THEN InsertKey(message, "params", JArr(<<>>))
    ELSE message

\* What one call of send does with a frame: its return ("ok", or "panic" when
\* as_object().unwrap() meets a frame that is no object) and the frames it
\* hands to the sink.
send(message) ==
    IF IsUpdate(message)
    THEN [ret |-> "ok", out |-> <<>>]
    ELSE LET stripped == StripJsonrpc(message) IN
         IF ~IsObject(stripped)
         THEN [ret |-> "panic", out |-> <<>>]
         ELSE [ret |-> "ok", out |-> <<EnsureParams(stripped)>>]

\* The RPC engine submits one frame.
Send ==
    /\ senderState = "ready"
    /\ Len(submitted) + Len(framed) < MaxFrames
    /\ \E message \in OutFrames :
        LET r == send(message) IN
        /\ submitted' = Append(submitted, message)
        /\ sendResults' = Append(sendResults, r.ret)
        /\ written' = written \o r.out
        /\ senderState' = IF r.ret = "panic" THEN "panicked" ELSE "ready"
    /\ UNCHANGED <<framed, delivered, receiverState>>
    /\ UNCHANGED <<framerVars, valueVars, recordVars, convVars>>

----------------------------------------------------------------------------
(* Receiver::receive *)

\* AddJsonrpc as entry("jsonrpc").or_insert(..): a jsonrpc member the frame
\* has is kept.
AddJsonrpcIfAbsent(message) ==
    IF IsObject(message) /\ ContainsKey(message, "jsonrpc")
    THEN message
    ELSE InsertKey(message, "jsonrpc", JStr("2.0"))

\* obj.insert("jsonrpc".to_string(), json!("2.0"))
AddJsonrpc(message) == InsertKey(message, "jsonrpc", JStr("2.0"))

\* DropErrorIfResult without its test: the error member is always removed.
DropErrorAlways(message) == RemoveKey(message, "error")

\* if message.as_object().unwrap().contains_key("result")
\*     { obj.remove("error") }
DropErrorIfResult(message) ==
    IF ContainsKey(message, "result") THEN RemoveKey(message, "error") ELSE message

\* DropNullId without the comparison with null: any id is removed.
DropIdAlways(message) == RemoveKey(message, "id")

\* if contains_key("id") && message["id"] == json!(null) { obj.remove("id") }
DropNullId(message) ==
    IF ContainsKey(message, "id") /\ Index(message, "id") = JNull
    THEN RemoveKey(message, "id")
    ELSE message

\* The rewrite of an inbound object frame, in the code's order.
InboundRewrite(message) == DropNullId(DropErrorIfResult(AddJsonrpc(message)))

\* What one call of receive returns for the item the stream yielded.
receive(item) ==
    CASE item.kind = "closed" -> [ret |-> "err", err |-> "ConnectionClosed"]
      [] item.kind = "ioerr" -> [ret |-> "err", err |-> "Io"]
      [] item.kind = "frame" ->
            IF ~IsObject(AddJsonrpc(item.v))
            THEN [ret |-> "panic"]
            ELSE [ret |-> "ok", msg |-> InboundRewrite(item.v)]

\* What the framer's stream can yield to receive: a frame, an I/O error, or
\* its end.
StreamItems ==
    {[kind |-> "frame", v |-> f] : f \in InFrames}
    \cup {[kind |-> "ioerr"], [kind |-> "closed"]}

\* The RPC engine asks for the next message; after an error it asks no more.
Receive ==
    /\ receiverState = "ready"
    /\ Len(submitted) + Len(framed) < MaxFrames
    /\ \E item \in StreamItems :
        LET r == receive(item) IN
        /\ framed' = Append(framed, item)
        /\ delivered' = Append(delivered, r)
        /\ receiverState' = CASE r.ret = "ok" -> "ready"
                              [] r.ret = "err" -> "failed"
                              [] r.ret = "panic" -> "panicked"
    /\ UNCHANGED <<submitted, sendResults, written, senderState>>
    /\ UNCHANGED <<framerVars, valueVars, recordVars, convVars>>

AdapterInit ==
    /\ submitted = <<>>
    /\ sendResults = <<>>
    /\ written = <<>>
    /\ senderState = "ready"
    /\ framed = <<>>
    /\ delivered = <<>>
    /\ receiverState = "ready"


----------------------------------------------------------------------------
(* JSON framer: JsonCodec over Framed.  A byte is a one-character string;  *)
(* the documents are arrays of numbers and arrays, and the empty object,   *)
(* which is the part of JSON's grammar that decides where a document ends. *)

Digits == {"1", "2"}
DigitValue(c) == IF c = "1" THEN 1 ELSE 2

\* Complete documents a peer sends, and byte strings that are not JSON.
ValidDocs == { <<"[", "]">>,
               <<"[", "1", "]">>,
               <<"[", "1", ",", "2", "]">>,
               <<"[", "[", "]", "]">>,
               <<"[", " ", "2", "1", "]">>,
               <<"{", "}">> }
InvalidDocs == { <<"[", "x", "]">>, <<"]">> }
Docs == ValidDocs \cup InvalidDocs

\* serde_json's parse_whitespace: the first position at or after i that
\* holds no whitespace (Len(s) + 1 at the end of the input).
RECURSIVE SkipWs(_, _)
SkipWs(s, i) == IF i <= Len(s) /\ s[i] = " " THEN SkipWs(s, i + 1) ELSE i

\* serde_json's parse of an integer: the digits from i on.
RECURSIVE ParseNumber(_, _, _)
ParseNumber(s, i, acc) ==
    IF i <= Len(s) /\ s[i] \in Digits
    THEN ParseNumber(s, i + 1, acc * 10 + DigitValue(s[i]))
    ELSE [st |-> "ok", val |-> JInt(acc), next |-> i]

\* serde_json's parse of one value from position i: "ok" with the value and
\* the position after it, "eof" when the input ends inside the value (the
\* errors for which Error::is_eof holds), "syntax" for any other error.
\* The members of an object, after its "{" (MapAccess::next_key_seed): the
\* object ends, or a key follows, which must be a string; none of the bytes
\* here starts a string.
ParseMembers(s, i) ==
    LET j == SkipWs(s, i) IN
    IF j > Len(s) THEN [st |-> "eof"]
    ELSE IF s[j] = "}" THEN [st |-> "ok", val |-> JObj(<<>>), next |-> j + 1]
    ELSE [st |-> "syntax"]

RECURSIVE ParseValue(_, _)
RECURSIVE ParseElements(_, _, _, _)
ParseValue(s, i) ==
    LET j == SkipWs(s, i) IN
    IF j > Len(s) THEN [st |-> "eof"]
    ELSE IF s[j] = "[" THEN ParseElements(s, j + 1, <<>>, TRUE)
    ELSE IF s[j] = "{" THEN ParseMembers(s, j + 1)
    ELSE IF s[j] \in Digits THEN ParseNumber(s, j, 0)
    ELSE [st |-> "syntax"]

\* The elements of an array, after its "[" (SeqAccess::next_element_seed and
\* end_seq): acc holds the elements parsed so far.
ParseElements(s, i, acc, first) ==
    LET j == SkipWs(s, i) IN
    IF j > Len(s) THEN [st |-> "eof"]
    ELSE IF s[j] = "]" THEN [st |-> "ok", val |-> JArr(acc), next |-> j + 1]
    ELSE IF s[j] = "," /\ ~first
    THEN LET k == SkipWs(s, j + 1) IN
         IF k > Len(s) THEN [st |-> "eof"]
         ELSE IF s[k] = "]" THEN [st |-> "syntax"]
         ELSE LET e == ParseValue(s, k) IN
              IF e.st = "ok"
              THEN ParseElements(s, e.next, Append(acc, e.val), FALSE)
              ELSE e
    ELSE IF first
    THEN LET e == ParseValue(s, j) IN
         IF e.st = "ok"
         THEN ParseElements(s, e.next, Append(acc, e.val), FALSE)
         ELSE e
    ELSE [st |-> "syntax"]

\* serde_json::from_slice::<Value>: one value, then Deserializer::end, which
\* fails with TrailingCharacters unless only whitespace follows.
from_slice(s) ==
    LET r == ParseValue(s, 1) IN
    IF r.st # "ok" THEN r
    ELSE IF SkipWs(s, r.next) <= Len(s) THEN [st |-> "syntax"]
    ELSE r

\* decode with src.clear() moved out of the Ok arm: the buffer is emptied
\* whatever the parse gave.
decodeClearingAlways(buf) ==
    IF buf = <<>> THEN [ret |-> "none", src |-> buf]
    ELSE LET r == from_slice(buf) IN
         CASE r.st = "ok" -> [ret |-> "some", val |-> r.val, src |-> <<>>]
           [] r.st = "eof" -> [ret |-> "none", src |-> <<>>]
           [] r.st = "syntax" -> [ret |-> "err", src |-> <<>>]

\* decode without the is_eof guard: every parse error asks for more input.
decodeEveryErrorAsEof(buf) ==
    IF buf = <<>> THEN [ret |-> "none", src |-> buf]
    ELSE LET r == from_slice(buf) IN
         CASE r.st = "ok" -> [ret |-> "some", val |-> r.val, src |-> <<>>]
           [] OTHER -> [ret |-> "none", src |-> buf]

\* JsonCodec::decode: the result and the buffer it leaves.
decode(buf) ==
    IF buf = <<>> THEN [ret |-> "none", src |-> buf]
    ELSE LET r == from_slice(buf) IN
         CASE r.st = "ok" -> [ret |-> "some", val |-> r.val, src |-> <<>>]
           [] r.st = "eof" -> [ret |-> "none", src |-> buf]
           [] r.st = "syntax" -> [ret |-> "err", src |-> buf]

\* The peer writes one more document to the connection.
PeerSend ==
    /\ Len(sentDocs) < MaxDocs
    /\ \E d \in Docs :
        /\ sentDocs' = Append(sentDocs, d)
        /\ wire' = wire \o d
    /\ UNCHANGED <<src, readable, yielded, lastDecode, srcBefore>>
    /\ UNCHANGED <<adapterVars, valueVars, recordVars, convVars>>

\* Framed reads the next chunk, of any length, into the buffer; it does so
\* only after decode asked for more.
Read ==
    /\ ~readable
    /\ lastDecode # "err"
    /\ \E n \in 1..Len(wire) :
        /\ src' = src \o SubSeq(wire, 1, n)
        /\ wire' = SubSeq(wire, n + 1, Len(wire))
    /\ readable' = TRUE
    /\ UNCHANGED <<sentDocs, yielded, lastDecode, srcBefore>>
    /\ UNCHANGED <<adapterVars, valueVars, recordVars, convVars>>

\* Framed calls decode on the buffer; a value is yielded and decode is
\* called again, "need more" makes Framed read, an error ends the stream.
Decode ==
    /\ readable
    /\ lastDecode # "err"
    /\ LET r == decode(src) IN
        /\ srcBefore' = src
        /\ src' = r.src
        /\ lastDecode' = r.ret
        /\ yielded' = IF r.ret = "some" THEN Append(yielded, r.val) ELSE yielded
        /\ readable' = (r.ret = "some")
    /\ UNCHANGED <<sentDocs, wire>>
    /\ UNCHANGED <<adapterVars, valueVars, recordVars, convVars>>

\* The items the framer's stream has yielded so far: the decoded values,
\* then the error if decode has failed.
Stream ==
    [i \in 1..Len(yielded) |-> [kind |-> "frame", v |-> yielded[i]]]
    \o (IF lastDecode = "err" THEN <<[kind |-> "ioerr"]>> ELSE <<>>)

\* Receiver::receive on the framer's stream (self.inner.next()): it takes
\* the next item the stream has yielded.
ReceiveNext ==
    /\ receiverState = "ready"
    /\ Len(framed) < Len(Stream)
    /\ LET item == Stream[Len(framed) + 1]
           r == receive(item)
       IN
        /\ framed' = Append(framed, item)
        /\ delivered' = Append(delivered, r)
        /\ receiverState' = CASE r.ret = "ok" -> "ready"
                              [] r.ret = "err" -> "failed"
                              [] r.ret = "panic" -> "panicked"
    /\ UNCHANGED <<submitted, sendResults, written, senderState>>
    /\ UNCHANGED <<framerVars, valueVars, recordVars, convVars>>

FramerInit ==
    /\ sentDocs = <<>>
    /\ wire = <<>>
    /\ src = <<>>
    /\ readable = FALSE
    /\ yielded = <<>>
    /\ lastDecode = "init"
    /\ srcBefore = <<>>


----------------------------------------------------------------------------
(* OVSDB value algebra (schema/src/lib.rs).                                *)
(* Option<T> is [some |-> FALSE] or [some |-> TRUE, val |-> x].  An f64 is *)
(* [fin |-> TRUE, x |-> n] for the finite double n.0 and [fin |-> FALSE]   *)
(* for an infinity.  A Uuid is named by a short string, which is not its   *)
(* text form; NilUuid is Uuid::default().                                  *)

None == [some |-> FALSE]
Some(x) == [some |-> TRUE, val |-> x]

Finite(n) == [fin |-> TRUE, x |-> n]
Infinity == [fin |-> FALSE]

NilUuid == "nil"
Uuid1 == "U1"
Uuid2 == "U2"

\* Uuid's Display (to_string): the lower-case hyphenated form.
UuidToString(u) ==
    CASE u = Uuid1 -> "601c7161-97df-42ae-b377-3baf21830d8f"
      [] u = Uuid2 -> "701c7161-97df-42ae-b377-3baf21830d8f"
      [] OTHER -> "00000000-0000-0000-0000-000000000000"

\* Uuid::parse_str(..).ok(): it accepts upper-case digits too.
ParseUuid(str) ==
    CASE str = "601c7161-97df-42ae-b377-3baf21830d8f" -> Some(Uuid1)
      [] str = "601C7161-97DF-42AE-B377-3BAF21830D8F" -> Some(Uuid1)
      [] str = "701c7161-97df-42ae-b377-3baf21830d8f" -> Some(Uuid2)
      [] str = "00000000-0000-0000-0000-000000000000" -> Some(NilUuid)
      [] OTHER -> None

\* enum OvsdbAtom
AString(str) == [k |-> "String", s |-> str]
AInteger(i) == [k |-> "Integer", i |-> i]
AReal(r) == [k |-> "Real", r |-> r]
ABoolean(b) == [k |-> "Boolean", b |-> b]
AUuid(u) == [k |-> "Uuid", u |-> u]
ANamedUuid(name) == [k |-> "NamedUuid", name |-> name]

\* enum OvsdbValue
VAtom(a) == [kind |-> "Atom", atom |-> a]
VSet(atoms) == [kind |-> "Set", set |-> atoms]
VMap(pairs) == [kind |-> "Map", map |-> pairs]

\* impl Serialize for OvsdbAtom, into a serde_json::Value.  serde_json turns
\* a double that is not finite into null.
SerializeAtom(atom) ==
    CASE atom.k = "String" -> JStr(atom.s)
      [] atom.k = "Integer" -> JInt(atom.i)
      [] atom.k = "Real" -> IF atom.r.fin THEN JFloat(atom.r.x) ELSE JNull
      [] atom.k = "Boolean" -> JBool(atom.b)
      [] atom.k = "Uuid" -> JArr(<<JStr("uuid"), JStr(UuidToString(atom.u))>>)
      [] atom.k = "NamedUuid" -> JArr(<<JStr("named-uuid"), JStr(atom.name)>>)

\* SerializeSet with `set.len() >= 1` for `set.len() == 1`: the first
\* element alone stands for any set that is not empty.
SerializeSetFirstOnly(set) ==
    IF Len(set) = 0 THEN JArr(<<>>) ELSE SerializeAtom(set[1])

\* impl Serialize for OvsdbValue, the Set arm.
SerializeSet(set) ==
    IF Len(set) = 0 THEN JArr(<<>>)
    ELSE IF Len(set) = 1 THEN SerializeAtom(set[1])
    ELSE JArr(<<JStr("set"), JArr([i \in 1..Len(set) |-> SerializeAtom(set[i])])>>)

\* SerializeMap with the Set arm's test for emptiness: an empty map is [].
SerializeMapEmptyAsSet(map) ==
    IF Len(map) = 0 THEN JArr(<<>>)
    ELSE JArr(<<JStr("map"),
                JArr([i \in 1..Len(map) |->
                        JArr(<<SerializeAtom(map[i][1]), SerializeAtom(map[i][2])>>)])>>)

\* impl Serialize for OvsdbValue, the Map arm.
SerializeMap(map) ==
    JArr(<<JStr("map"),
           JArr([i \in 1..Len(map) |->
                    JArr(<<SerializeAtom(map[i][1]), SerializeAtom(map[i][2])>>)])>>)

\* impl Serialize for OvsdbValue
Serialize(v) ==
    CASE v.kind = "Atom" -> SerializeAtom(v.atom)
      [] v.kind = "Set" -> SerializeSet(v.set)
      [] v.kind = "Map" -> SerializeMap(v.map)

\* extract_uuid
extract_uuid(json) ==
    IF json.t = "arr" /\ Len(json.a) = 2 /\ json.a[1] = JStr("uuid")
       /\ json.a[2].t = "str"
    THEN ParseUuid(json.a[2].s)
    ELSE None

\* json_to_ovsdb_value, the Number arm: as_i64, else as_f64.
NumberToValue(json) ==
    IF json.t = "int" THEN Some(VAtom(AInteger(json.n)))
    ELSE Some(VAtom(AReal(Finite(json.f))))

IsAtomResult(r) == r.some /\ r.val.kind = "Atom"

RECURSIVE json_to_ovsdb_value(_)

\* json_to_ovsdb_value, the "set" arm: every element must give an atom.
SetFromJson(elements) ==
    LET dec == [i \in 1..Len(elements) |-> json_to_ovsdb_value(elements[i])] IN
    IF \A i \in 1..Len(elements) : IsAtomResult(dec[i])
    THEN Some(VSet([i \in 1..Len(elements) |-> dec[i].val.atom]))
    ELSE None

\* json_to_ovsdb_value, the "map" arm: every pair must be a two-element
\* array whose members both give atoms.
MapFromJson(pairs) ==
    LET good(pair) == /\ pair.t = "arr"
                      /\ Len(pair.a) = 2
                      /\ IsAtomResult(json_to_ovsdb_value(pair.a[1]))
                      /\ IsAtomResult(json_to_ovsdb_value(pair.a[2]))
    IN
    IF \A i \in 1..Len(pairs) : good(pairs[i])
    THEN Some(VMap([i \in 1..Len(pairs) |->
                      <<json_to_ovsdb_value(pairs[i].a[1]).val.atom,
                        json_to_ovsdb_value(pairs[i].a[2]).val.atom>>]))
    ELSE None

\* json_to_ovsdb_value, the Array arm.  "tagged" is what the match on the
\* tag returns; when it returns nothing the code falls through to the
\* empty-array test.
ArrayToValue(arr) ==
    LET fallthrough == IF Len(arr) = 0 THEN Some(VSet(<<>>)) ELSE None IN
    IF Len(arr) = 2 /\ arr[1].t = "str"
    THEN CASE arr[1].s = "uuid" ->
                IF arr[2].t = "str" /\ ParseUuid(arr[2].s).some
                THEN Some(VAtom(AUuid(ParseUuid(arr[2].s).val)))
                ELSE fallthrough
           [] arr[1].s = "named-uuid" ->
                IF arr[2].t = "str"
                THEN Some(VAtom(ANamedUuid(arr[2].s)))
                ELSE fallthrough
           [] arr[1].s = "set" ->
                IF arr[2].t = "arr" THEN SetFromJson(arr[2].a) ELSE fallthrough
           [] arr[1].s = "map" ->
                IF arr[2].t = "arr" THEN MapFromJson(arr[2].a) ELSE fallthrough
           [] OTHER -> fallthrough
    ELSE fallthrough

json_to_ovsdb_value(json) ==
    CASE json.t = "str" -> Some(VAtom(AString(json.s)))
      [] json.t \in {"int", "float"} -> NumberToValue(json)
      [] json.t = "bool" -> Some(VAtom(ABoolean(json.b)))
      [] json.t = "arr" -> ArrayToValue(json.a)
      [] json.t = "null" -> Some(VSet(<<>>))
      [] OTHER -> None


----------------------------------------------------------------------------
(* OvsdbSerializable: the Rust types that implement it, and their values.  *)
(* A String is a string, an i64 an integer, a bool a Boolean, a Vec<T> a   *)
(* sequence, a HashMap<K, V> a set of <<key, value>> pairs with distinct   *)
(* keys.                                                                   *)

TString == [c |-> "String"]
TI64 == [c |-> "i64"]
TF64 == [c |-> "f64"]
TBool == [c |-> "bool"]
TUuid == [c |-> "Uuid"]
TOption(T) == [c |-> "Option", of |-> T]
TVec(T) == [c |-> "Vec", of |-> T]
THashMap(K, V) == [c |-> "HashMap", key |-> K, of |-> V]

\* The pairs of a HashMap in the order its iterator gives them: some order,
\* fixed for a given map.
RECURSIVE IterOrder(_)
IterOrder(m) ==
    IF m = {} THEN <<>>
    ELSE LET p == CHOOSE q \in m : TRUE IN <<p>> \o IterOrder(m \ {p})

\* HashMap::insert
MapInsert(m, key, x) == {p \in m : p[1] # key} \cup {<<key, x>>}

RECURSIVE MapFromPairs(_)
MapFromPairs(pairs) ==
    IF pairs = <<>> THEN {}
    ELSE MapInsert(MapFromPairs(SubSeq(pairs, 1, Len(pairs) - 1)),
                   pairs[Len(pairs)][1], pairs[Len(pairs)][2])

\* Default::default()
Default(T) ==
    CASE T.c = "String" -> ""
      [] T.c = "i64" -> 0
      [] T.c = "f64" -> Finite(0)
      [] T.c = "bool" -> FALSE
      [] T.c = "Uuid" -> NilUuid
      [] T.c = "Option" -> None
      [] T.c = "Vec" -> <<>>
      [] T.c = "HashMap" -> {}

RECURSIVE to_ovsdb(_, _)

\* Vec<T>::to_ovsdb
VecToOvsdb(T, x) ==
    LET items == [i \in 1..Len(x) |-> to_ovsdb(T.of, x[i])] IN
    IF Len(x) = 0 THEN VSet(<<>>)
    ELSE IF \A i \in 1..Len(x) : items[i].kind = "Atom"
    THEN VSet([i \in 1..Len(x) |-> items[i].atom])
    ELSE VSet(<<>>)

\* HashMap<K, V>::to_ovsdb
HashMapToOvsdb(T, x) ==
    LET pairs == IterOrder(x)
        keyOf(i) == to_ovsdb(T.key, pairs[i][1])
        valOf(i) == to_ovsdb(T.of, pairs[i][2])
    IN
    IF \A i \in 1..Len(pairs) : keyOf(i).kind = "Atom" /\ valOf(i).kind = "Atom"
    THEN VMap([i \in 1..Len(pairs) |-> <<keyOf(i).atom, valOf(i).atom>>])
    ELSE VMap(<<>>)

\* Option<T>::to_ovsdb
OptionToOvsdb(T, x) == IF x.some THEN to_ovsdb(T.of, x.val) ELSE VSet(<<>>)

to_ovsdb(T, x) ==
    CASE T.c = "String" -> VAtom(AString(x))
      [] T.c = "i64" -> VAtom(AInteger(x))
      [] T.c = "f64" -> VAtom(AReal(x))
      [] T.c = "bool" -> VAtom(ABoolean(x))
      [] T.c = "Uuid" -> VAtom(AUuid(x))
      [] T.c = "Option" -> OptionToOvsdb(T, x)
      [] T.c = "Vec" -> VecToOvsdb(T, x)
      [] T.c = "HashMap" -> HashMapToOvsdb(T, x)

\* from_ovsdb of the five primitive types: the atom of that kind, else None.
AtomFromOvsdb(T, v) ==
    IF v.kind # "Atom" THEN None
    ELSE CASE T.c = "String" /\ v.atom.k = "String" -> Some(v.atom.s)
           [] T.c = "i64" /\ v.atom.k = "Integer" -> Some(v.atom.i)
           [] T.c = "f64" /\ v.atom.k = "Real" -> Some(v.atom.r)
           [] T.c = "bool" /\ v.atom.k = "Boolean" -> Some(v.atom.b)
           [] T.c = "Uuid" /\ v.atom.k = "Uuid" -> Some(v.atom.u)
           [] OTHER -> None

RECURSIVE from_ovsdb(_, _)

\* OptionFromOvsdb as the inverse of Option<T>::to_ovsdb: the empty set is
\* None.
OptionFromOvsdbEmptyAsNone(T, v) ==
    IF v = VSet(<<>>) THEN Some(None)
    ELSE LET r == from_ovsdb(T.of, v) IN
         IF r.some THEN Some(Some(r.val)) ELSE None

\* Option<T>::from_ovsdb: T::from_ovsdb(value).map(Some)
OptionFromOvsdb(T, v) ==
    LET r == from_ovsdb(T.of, v) IN
    IF r.some THEN Some(Some(r.val)) ELSE None

\* VecFromOvsdb without its second arm: a single atom is no sequence.
VecFromOvsdbSetOnly(T, v) ==
    IF v.kind = "Set"
    THEN LET items == [i \in 1..Len(v.set) |-> from_ovsdb(T.of, VAtom(v.set[i]))] IN
         IF \A i \in 1..Len(v.set) : items[i].some
         THEN Some([i \in 1..Len(v.set) |-> items[i].val])
         ELSE None
    ELSE None

\* VecFromOvsdb with filter_map for the loop: an element that does not
\* convert is left out.
VecFromOvsdbSkipping(T, v) ==
    CASE v.kind = "Set" ->
            LET items == [i \in 1..Len(v.set) |-> from_ovsdb(T.of, VAtom(v.set[i]))]
                IsSome(r) == r.some
                kept == SelectSeq(items, IsSome)
            IN Some([i \in 1..Len(kept) |-> kept[i].val])
      [] v.kind = "Atom" ->
            LET r == from_ovsdb(T.of, VAtom(v.atom)) IN
            IF r.some THEN Some(<<r.val>>) ELSE None
      [] OTHER -> None

\* Vec<T>::from_ovsdb
VecFromOvsdb(T, v) ==
    CASE v.kind = "Set" ->
            LET items == [i \in 1..Len(v.set) |-> from_ovsdb(T.of, VAtom(v.set[i]))] IN
            IF \A i \in 1..Len(v.set) : items[i].some
            THEN Some([i \in 1..Len(v.set) |-> items[i].val])
            ELSE None
      [] v.kind = "Atom" ->
            LET r == from_ovsdb(T.of, VAtom(v.atom)) IN
            IF r.some THEN Some(<<r.val>>) ELSE None
      [] OTHER -> None

\* HashMap<K, V>::from_ovsdb
HashMapFromOvsdb(T, v) ==
    IF v.kind # "Map" THEN None
    ELSE LET keyOf(i) == from_ovsdb(T.key, VAtom(v.map[i][1]))
             valOf(i) == from_ovsdb(T.of, VAtom(v.map[i][2]))
         IN
         IF \A i \in 1..Len(v.map) : keyOf(i).some /\ valOf(i).some
         THEN Some(MapFromPairs([i \in 1..Len(v.map) |->
                                    <<keyOf(i).val, valOf(i).val>>]))
         ELSE None

from_ovsdb(T, v) ==
    CASE T.c \in {"String", "i64", "f64", "bool", "Uuid"} -> AtomFromOvsdb(T, v)
      [] T.c = "Option" -> OptionFromOvsdb(T, v)
      [] T.c = "Vec" -> VecFromOvsdb(T, v)
      [] T.c = "HashMap" -> HashMapFromOvsdb(T, v)

\* OvsdbSerializableExt::to_ovsdb_json: serde_json::to_value(..).ok(); the
\* serialization of an OvsdbValue never fails.
to_ovsdb_json(T, x) == Some(Serialize(to_ovsdb(T, x)))

\* OvsdbSerializableExt::from_ovsdb_json
from_ovsdb_json(T, json) ==
    LET v == json_to_ovsdb_value(json) IN
    IF v.some THEN from_ovsdb(T, v.val) ELSE None


----------------------------------------------------------------------------
(* Record glue generated by ovsdb_object for a struct.  The struct modelled *)
(* has the field kinds of the NbGlobal structs of the tests and examples:  *)
(* plain and optional atoms, a sequence, an optional sequence and a map.   *)

\* The struct's declared fields, in declaration order; the macro adds _uuid
\* and _version and keeps them out of this list.
Fields == << [name |-> "name", ty |-> TOption(TString)],
             [name |-> "nb_cfg", ty |-> TI64],
             [name |-> "connections", ty |-> TVec(TUuid)],
             [name |-> "ssl", ty |-> TOption(TVec(TUuid))],
             [name |-> "external_ids", ty |-> THashMap(TString, TString)],
             [name |-> "ipsec", ty |-> TOption(TBool)] >>

FieldNames == {Fields[i].name : i \in 1..Len(Fields)}
FieldIndex(f) == CHOOSE i \in 1..Len(Fields) : Fields[i].name = f
FieldTy(f) == Fields[FieldIndex(f)].ty
ImplicitFields == {"_uuid", "_version"}

\* new with a field that does not start at its zero value.
newNbCfgOne ==
    [f \in FieldNames \cup ImplicitFields |->
        IF f \in ImplicitFields THEN None
        ELSE IF f = "nb_cfg" THEN 1 ELSE Default(FieldTy(f))]

\* new()
new ==
    [f \in FieldNames \cup ImplicitFields |->
        IF f \in ImplicitFields THEN None ELSE Default(FieldTy(f))]

\* to_map: for each declared field, `if let Some(value) =
\* field_value.to_ovsdb_json() { map.insert(name, value) }`.
to_map(r) ==
    LET json(f) == to_ovsdb_json(FieldTy(f), r[f]) IN
    [f \in {g \in FieldNames : json(g).some} |-> json(f).val]

\* from_map, the two implicit fields: set when the entry is there and
\* extract_uuid accepts it.
ImplicitFromMap(m, f) ==
    IF f \in DOMAIN m /\ extract_uuid(m[f]).some
    THEN Some(extract_uuid(m[f]).val)
    ELSE new[f]

\* from_map with ok_or_else(..)? on extract_uuid too: an entry under _uuid
\* or _version that is no tagged UUID is a failure naming it.
from_mapStrictUuid(m) ==
    LET dec(f) == from_ovsdb_json(FieldTy(f), m[f])
        badImplicit == {f \in ImplicitFields \cap DOMAIN m : ~extract_uuid(m[f]).some}
        failing == {i \in 1..Len(Fields) :
                       Fields[i].name \in DOMAIN m /\ ~dec(Fields[i].name).some}
        firstFailing == CHOOSE i \in failing : \A j \in failing : i <= j
    IN
    IF badImplicit # {}
    THEN [ok |-> FALSE, err |-> CHOOSE f \in badImplicit : TRUE]
    ELSE IF failing # {}
    THEN [ok |-> FALSE, err |-> Fields[firstFailing].name]
    ELSE [ok |-> TRUE,
          val |-> [f \in FieldNames \cup ImplicitFields |->
                     IF f \in ImplicitFields THEN ImplicitFromMap(m, f)
                     ELSE IF f \in DOMAIN m THEN dec(f).val
                     ELSE new[f]]]

\* from_map with unwrap_or_default() for the `?`: a field that does not
\* decode is left at its default and the record is returned.
from_mapKeepDefault(m) ==
    LET dec(f) == from_ovsdb_json(FieldTy(f), m[f]) IN
    [ok |-> TRUE,
     val |-> [f \in FieldNames \cup ImplicitFields |->
                IF f \in ImplicitFields THEN ImplicitFromMap(m, f)
                ELSE IF f \in DOMAIN m /\ dec(f).some THEN dec(f).val
                ELSE new[f]]]

\* from_map: Ok(record), or Err naming the first declared field, in
\* declaration order, whose entry does not decode.
from_map(m) ==
    LET dec(f) == from_ovsdb_json(FieldTy(f), m[f])
        failing == {i \in 1..Len(Fields) :
                       Fields[i].name \in DOMAIN m /\ ~dec(Fields[i].name).some}
        firstFailing == CHOOSE i \in failing : \A j \in failing : i <= j
    IN
    IF failing # {}
    THEN [ok |-> FALSE, err |-> Fields[firstFailing].name]
    ELSE [ok |-> TRUE,
          val |-> [f \in FieldNames \cup ImplicitFields |->
                     IF f \in ImplicitFields THEN ImplicitFromMap(m, f)
                     ELSE IF f \in DOMAIN m THEN dec(f).val
                     ELSE new[f]]]


----------------------------------------------------------------------------
(* The values and records the codec is run on. *)

SeqsUpTo(S, n) == UNION {[1..k -> S] : k \in 0..n}

Atoms == { AString("a"), AString("uuid"), AInteger(0), AReal(Finite(1)),
           AReal(Infinity), ABoolean(TRUE), AUuid(Uuid1), ANamedUuid("row1") }

OvsdbValues ==
    {VAtom(a) : a \in Atoms}
    \cup {VSet(q) : q \in SeqsUpTo(Atoms, MaxSetLen)}
    \cup {VMap(q) : q \in SeqsUpTo(Atoms \X Atoms, MaxMapLen)}

\* The HashMap<String, String> values with at most n entries.
StringMaps(n) ==
    {m \in SUBSET ({"test", "name"} \X {"bara"}) : Cardinality(m) <= n}

Records ==
    [ name : {None, Some("global")},
      nb_cfg : {0, 5},
      connections : SeqsUpTo({Uuid1, Uuid2}, MaxSetLen),
      ssl : {None, Some(<<>>), Some(<<Uuid1>>)},
      external_ids : StringMaps(MaxMapLen),
      ipsec : {None, Some(FALSE)},
      _uuid : {None, Some(Uuid1)},
      _version : {None, Some(Uuid2)} ]

\* The rows from_map is given: the keys a server sends for the struct, a
\* column the struct does not declare among them, each with values that
\* decode to the field's type and values that do not.
RowKeys == FieldNames \cup ImplicitFields \cup {"hv_cfg"}
RowValues(key) ==
    CASE key = "name" ->
            { JStr("global"), JInt(1), JNull, JArr(<<>>),
              JArr(<<JStr("set"), JArr(<<>>)>>) }
      [] key = "nb_cfg" -> {JInt(5), JStr("5"), JNull}
      [] key = "connections" ->
            { JArr(<<JStr("uuid"), JStr("601c7161-97df-42ae-b377-3baf21830d8f")>>),
              JArr(<<JStr("set"),
                     JArr(<<JArr(<<JStr("uuid"), JStr("701c7161-97df-42ae-b377-3baf21830d8f")>>),
                            JArr(<<JStr("uuid"), JStr("601c7161-97df-42ae-b377-3baf21830d8f")>>)>>)>>),
              JArr(<<>>), JStr("global") }
      [] key = "ssl" ->
            { JArr(<<JStr("set"), JArr(<<>>)>>), JArr(<<>>), JNull,
              JArr(<<JStr("uuid"), JStr("601c7161-97df-42ae-b377-3baf21830d8f")>>),
              JArr(<<JStr("map"), JArr(<<>>)>>) }
      [] key = "external_ids" ->
            { JArr(<<JStr("map"), JArr(<<JArr(<<JStr("test"), JStr("bara")>>)>>)>>),
              JArr(<<JStr("map"), JArr(<<>>)>>),
              JArr(<<>>) }
      [] key = "ipsec" -> {JBool(FALSE), JNull}
      [] key = "_uuid" ->
            { JArr(<<JStr("uuid"), JStr("601c7161-97df-42ae-b377-3baf21830d8f")>>),
              JArr(<<JStr("uuid"), JStr("not-a-uuid")>>),
              JArr(<<JStr("named-uuid"), JStr("row1")>>),
              JStr("601c7161-97df-42ae-b377-3baf21830d8f"),
              JNull }
      [] key = "_version" ->
            { JArr(<<JStr("uuid"), JStr("701c7161-97df-42ae-b377-3baf21830d8f")>>),
              JArr(<<JStr("uuid")>>),
              JArr(<<JStr("uuid"), JInt(1)>>) }
      [] key = "hv_cfg" -> {JInt(0), JNull}

\* HashMap::insert on a HashMap<String, Value>.
RowInsert(m, key, x) ==
    [k \in (DOMAIN m) \cup {key} |-> IF k = key THEN x ELSE m[k]]

\* The rows with exactly the keys K.
RECURSIVE RowsOver(_)
RowsOver(K) ==
    IF K = {} THEN {<<>>}
    ELSE LET key == CHOOSE k \in K : TRUE IN
         {RowInsert(m, key, x) : m \in RowsOver(K \ {key}), x \in RowValues(key)}

Rows == UNION {RowsOver(K) : K \in {S \in SUBSET RowKeys : Cardinality(S) <= MaxRowKeys}}

----------------------------------------------------------------------------
(* Encoding a value and decoding it again. *)

Encode ==
    /\ valuePc = "init"
    /\ valueJson' = Serialize(value)
    /\ valuePc' = "encoded"
    /\ UNCHANGED <<value, valueBack>>
    /\ UNCHANGED <<adapterVars, framerVars, recordVars, convVars>>

DecodeJson ==
    /\ valuePc = "encoded"
    /\ valueBack' = json_to_ovsdb_value(valueJson)
    /\ valuePc' = "decoded"
    /\ UNCHANGED <<value, valueJson>>
    /\ UNCHANGED <<adapterVars, framerVars, recordVars, convVars>>

ValueInit ==
    /\ value \in OvsdbValues
    /\ valueJson = JNull
    /\ valueBack = None
    /\ valuePc = "init"

ValueIdle ==
    /\ value = VSet(<<>>)
    /\ valueJson = JNull
    /\ valueBack = None
    /\ valuePc = "idle"

(* Turning a record into a map and the map into a record again. *)

ToMap ==
    /\ recPc = "init"
    /\ recMap' = to_map(rec)
    /\ recPc' = "mapped"
    /\ UNCHANGED <<rec, recBack>>
    /\ UNCHANGED <<adapterVars, framerVars, valueVars, convVars>>

FromMap ==
    /\ recPc = "mapped"
    /\ recBack' = from_map(recMap)
    /\ recPc' = "parsed"
    /\ UNCHANGED <<rec, recMap>>
    /\ UNCHANGED <<adapterVars, framerVars, valueVars, convVars>>

RecordInit ==
    /\ rec \in Records
    /\ recMap = <<>>
    /\ recBack = [ok |-> FALSE, err |-> ""]
    /\ recPc = "init"

\* A row has been received and from_map is about to be called on it.
RowInit ==
    /\ rec = new
    /\ recMap \in Rows
    /\ recBack = [ok |-> FALSE, err |-> ""]
    /\ recPc = "mapped"

RecordIdle ==
    /\ rec = new
    /\ recMap = <<>>
    /\ recBack = [ok |-> FALSE, err |-> ""]
    /\ recPc = "idle"

----------------------------------------------------------------------------
(* T::from_ovsdb_json and T::to_ovsdb_json run on their own: the JSON a    *)
(* server puts in a column, and the Rust values a caller encodes.          *)

\* JSON forms of atoms, among them a tagged UUID that does not parse.
WireAtoms ==
    { JStr("a"), JStr("b"), JInt(1), JFloat(1), JBool(TRUE),
      JArr(<<JStr("uuid"), JStr("601c7161-97df-42ae-b377-3baf21830d8f")>>),
      JArr(<<JStr("uuid"), JStr("701c7161-97df-42ae-b377-3baf21830d8f")>>),
      JArr(<<JStr("uuid"), JStr("not-a-uuid")>>),
      JArr(<<JStr("named-uuid"), JStr("row1")>>) }

\* ["set", [...]]: the elements are atoms, or a null.
WireSets ==
    {JArr(<<JStr("set"), JArr(q)>>) :
        q \in SeqsUpTo(WireAtoms \cup {JNull}, MaxSetLen)}

\* ["map", [...]]: the pairs are [key, value] arrays, or an array that is too
\* short, or no array at all.
WirePairs ==
    {JArr(<<k, v>>) : k \in {JStr("test"), JStr("name"), JInt(1)},
                      v \in {JStr("bara"), JInt(1), JNull}}
    \cup {JArr(<<JStr("test")>>), JStr("test")}
WireMaps ==
    {JArr(<<JStr("map"), JArr(q)>>) : q \in SeqsUpTo(WirePairs, MaxEntries)}

\* Other JSON: the two short forms of the empty set, an array with no tag, a
\* tag with no array after it, and an object.
WireOthers ==
    { JArr(<<>>), JNull, JArr(<<JStr("a"), JStr("b")>>),
      JArr(<<JStr("set"), JStr("a")>>), JArr(<<JStr("map"), JNull>>),
      JObj(<<>>) }

WireJson == WireAtoms \cup WireSets \cup WireMaps \cup WireOthers

\* The types decoded into: the field types of the structs in the tests and
\* examples.
DecodeTypes ==
    { TString, TI64, TF64, TBool, TUuid,
      TOption(TString), TOption(TVec(TUuid)),
      TVec(TString), TVec(TUuid), TVec(TI64),
      THashMap(TString, TString) }

\* The HashMaps with keys in K, values in V and at most n entries.
Maps(K, V, n) ==
    {m \in SUBSET (K \X V) :
        /\ Cardinality(m) <= n
        /\ \A p \in m, q \in m : p[1] = q[1] => p = q}

\* The types encoded, and the values of each that are encoded.
EncodeTypes ==
    { TVec(TString), TVec(TUuid), TVec(TI64), TVec(TBool), TVec(TF64),
      TVec(TOption(TString)),
      THashMap(TString, TString), THashMap(TString, TOption(TString)),
      THashMap(TString, TVec(TString)) }
EncodeValues(T) ==
    CASE T = TVec(TString) -> SeqsUpTo({"a", "b"}, MaxSetLen)
      [] T = TVec(TUuid) -> SeqsUpTo({Uuid1, Uuid2}, MaxSetLen)
      [] T = TVec(TI64) -> SeqsUpTo({0, 5}, MaxSetLen)
      [] T = TVec(TBool) -> SeqsUpTo({TRUE, FALSE}, MaxSetLen)
      [] T = TVec(TF64) -> SeqsUpTo({Finite(1), Infinity}, MaxSetLen)
      [] T = TVec(TOption(TString)) -> SeqsUpTo({None, Some("a")}, MaxSetLen)
      [] T = THashMap(TString, TString) ->
            Maps({"test", "name"}, {"bara"}, MaxEntries)
      [] T = THashMap(TString, TOption(TString)) ->
            Maps({"test", "name"}, {None, Some("bara")}, MaxEntries)
      [] T = THashMap(TString, TVec(TString)) ->
            Maps({"test", "name"}, {<<>>, <<"a">>}, MaxEntries)

\* T::from_ovsdb_json(json)
FromOvsdbJson ==
    /\ convPc = "toDecode"
    /\ convOut' = from_ovsdb_json(convTy, convIn)
    /\ convPc' = "decoded"
    /\ UNCHANGED <<convTy, convIn>>
    /\ UNCHANGED <<adapterVars, framerVars, valueVars, recordVars>>

\* x.to_ovsdb_json()
ToOvsdbJson ==
    /\ convPc = "toEncode"
    /\ convOut' = to_ovsdb_json(convTy, convIn)
    /\ convPc' = "encoded"
    /\ UNCHANGED <<convTy, convIn>>
    /\ UNCHANGED <<adapterVars, framerVars, valueVars, recordVars>>

ConvInit ==
    /\ convOut = None
    /\ \/ /\ convPc = "toDecode"
          /\ convTy \in DecodeTypes
          /\ convIn \in WireJson
       \/ /\ convPc = "toEncode"
          /\ convTy \in EncodeTypes
          /\ convIn \in EncodeValues(convTy)

ConvIdle ==
    /\ convTy = TString
    /\ convIn = JNull
    /\ convOut = None
    /\ convPc = "idle"

----------------------------------------------------------------------------
(* UpdateNotification<T>: its Deserialize, for T = serde_json::Value, on   *)
(* the params of an "update" notification.  The result is                  *)
(* [ok |-> TRUE, val |-> [id |-> .., message |-> ..]] or [ok |-> FALSE,    *)
(* err |-> ..]; a TableUpdate is a function from table names to functions  *)
(* from row UUIDs to row updates.                                          *)

\* JSON found in params: matchers, table updates, and values that are
\* neither.
TableUpdate1 ==
    MakeObj({<<"NB_Global",
               MakeObj({<<"601c7161-97df-42ae-b377-3baf21830d8f",
                          MakeObj({<<"new", JObj(<<>>)>>})>>})>>})
ParamElems ==
    { JNull, JStr("monitor1"), JInt(1), JArr(<<>>),
      JObj(<<>>), TableUpdate1, MakeObj({<<"NB_Global", JInt(1)>>}) }
NotifyParams ==
    {JArr(q) : q \in SeqsUpTo(ParamElems, MaxParams)} \cup {JNull, JObj(<<>>)}

\* Option<String> with any value that is no string read as None.
DeserializeIdLenient(v) ==
    IF v.t = "str" THEN [ok |-> TRUE, val |-> Some(v.s)]
    ELSE [ok |-> TRUE, val |-> None]

\* Deserialize for Option<String>: null is None, a string is Some, anything
\* else is an invalid type.
DeserializeId(v) ==
    CASE v.t = "null" -> [ok |-> TRUE, val |-> None]
      [] v.t = "str" -> [ok |-> TRUE, val |-> Some(v.s)]
      [] OTHER -> [ok |-> FALSE, err |-> "invalid_type"]

\* Deserialize for TableUpdate<Value> = HashMap<String, HashMap<String,
\* Value>>: an object whose members are objects.
DeserializeTableUpdate(v) ==
    IF v.t = "obj" /\ \A table \in DOMAIN v.o : v.o[table].t = "obj"
    THEN [ok |-> TRUE, val |-> [table \in DOMAIN v.o |-> v.o[table].o]]
    ELSE [ok |-> FALSE, err |-> "invalid_type"]

\* UpdateNotificationVisitor::visit_seq on the elements of the array, then
\* the end of the sequence, which serde_json refuses while elements remain.
visit_seq(seq) ==
    IF Len(seq) = 0 THEN [ok |-> FALSE, err |-> "invalid_length"]
    ELSE LET id == DeserializeId(seq[1]) IN
         IF ~id.ok THEN id
         ELSE IF Len(seq) = 1 THEN [ok |-> FALSE, err |-> "invalid_length"]
         ELSE LET message == DeserializeTableUpdate(seq[2]) IN
              IF ~message.ok THEN message
              ELSE IF Len(seq) > 2 THEN [ok |-> FALSE, err |-> "invalid_length"]
              ELSE [ok |-> TRUE, val |-> [id |-> id.val, message |-> message.val]]

\* UpdateNotification::deserialize: deserialize_seq, which takes an array.
deserialize(params) ==
    IF params.t = "arr" THEN visit_seq(params.a)
    ELSE [ok |-> FALSE, err |-> "invalid_type"]

\* The subscription deserializes the params of a notification.
DeserializeNotification ==
    /\ convPc = "toDeserialize"
    /\ convOut' = deserialize(convIn)
    /\ convPc' = "deserialized"
    /\ UNCHANGED <<convTy, convIn>>
    /\ UNCHANGED <<adapterVars, framerVars, valueVars, recordVars>>

NotifyInit ==
    /\ convTy = [c |-> "UpdateNotification"]
    /\ convIn \in NotifyParams
    /\ convOut = None
    /\ convPc = "toDeserialize"

----------------------------------------------------------------------------
(* Specifications: one per component, the others at rest. *)

\* The protocol adapter between the RPC engine and the framer.
Init == AdapterInit /\ FramerInit /\ ValueIdle /\ RecordIdle /\ ConvIdle
Next == Send \/ Receive
Spec == Init /\ [][Next]_vars

\* The framer on a connection the peer writes documents to.
FramerNext == PeerSend \/ Read \/ Decode
SpecFramer == Init /\ [][FramerNext]_vars

\* The receiver on the framer's stream.
PipelineNext == PeerSend \/ Read \/ Decode \/ ReceiveNext
SpecPipeline == Init /\ [][PipelineNext]_vars

\* The JSON form of OVSDB values.
ValueSpecInit == AdapterInit /\ FramerInit /\ ValueInit /\ RecordIdle /\ ConvIdle
ValueNext == Encode \/ DecodeJson
SpecValue == ValueSpecInit /\ [][ValueNext]_vars

\* The record glue.
RecordSpecInit == AdapterInit /\ FramerInit /\ ValueIdle /\ RecordInit /\ ConvIdle
RecordNext == ToMap \/ FromMap
SpecRecord == RecordSpecInit /\ [][RecordNext]_vars

\* from_map on the rows a server sends.
RowSpecInit == AdapterInit /\ FramerInit /\ ValueIdle /\ RowInit /\ ConvIdle
RowNext == FromMap
SpecFromMap == RowSpecInit /\ [][RowNext]_vars

\* The deserialization of update notifications.
NotifySpecInit == AdapterInit /\ FramerInit /\ ValueIdle /\ RecordIdle /\ NotifyInit
NotifyNext == DeserializeNotification
SpecNotify == NotifySpecInit /\ [][NotifyNext]_vars

\* The typed conversions.
ConvSpecInit == AdapterInit /\ FramerInit /\ ValueIdle /\ RecordIdle /\ ConvInit
ConvNext == FromOvsdbJson \/ ToOvsdbJson
SpecConv == ConvSpecInit /\ [][ConvNext]_vars


----------------------------------------------------------------------------
(* Properties.  Their vocabulary is defined here, apart from the operators *)
(* that model the code.                                                    *)

HasMember(f, key) == f.t = "obj" /\ key \in DOMAIN f.o
MethodIsUpdate(f) == HasMember(f, "method") /\ f.o["method"] = JStr("update")
EmptyArray == JArr(<<>>)

\* The submitted frames that are not "update" frames, in submission order.
NotUpdate(f) == ~MethodIsUpdate(f)
Forwardable == SelectSeq(submitted, NotUpdate)

\* The documents of a byte string, each parsed on its own.
DocValue(d) == from_slice(d).val
AllDocsValid == \A i \in 1..Len(sentDocs) : sentDocs[i] \in ValidDocs

\* C1: whatever the chunks, decode yields exactly the documents the peer
\* sent, in order, none lost, none duplicated and none turned into an error:
\* no decode call fails, the values yielded so far are the first documents
\* sent, and once every byte has been read and decode asks for more, every
\* document has been yielded and the buffer is empty.
C1_DecodeYieldsSentDocs ==
    AllDocsValid =>
        /\ lastDecode # "err"
        /\ Len(yielded) <= Len(sentDocs)
        /\ \A i \in 1..Len(yielded) : yielded[i] = DocValue(sentDocs[i])
        /\ (wire = <<>> /\ ~readable /\ lastDecode = "none")
              => (Len(yielded) = Len(sentDocs) /\ src = <<>>)

\* C2: a send of a frame whose method is "update" returns success and writes
\* nothing, and no frame with method "update" ever reaches the transport.
C2_UpdateNeverWritten ==
    /\ \A i \in 1..Len(submitted) :
          MethodIsUpdate(submitted[i]) => sendResults[i] = "ok"
    /\ Len(written) <= Len(Forwardable)
    /\ \A j \in 1..Len(written) : ~MethodIsUpdate(written[j])

\* C2's case: an "update" frame and another frame have been sent, and only
\* the other one was written.
C2_Witness ==
    /\ Len(submitted) = 2
    /\ MethodIsUpdate(submitted[1])
    /\ sendResults = <<"ok", "ok">>
    /\ Len(written) = 1

\* C3 as stated: a written frame has no jsonrpc and has params, its params
\* is the empty array exactly when the submitted frame had none, and a
\* params the submitted frame had is written unchanged.
C3_ParamsEmptyExactlyWhenAbsent ==
    \A j \in 1..Len(written) :
        /\ ~HasMember(written[j], "jsonrpc")
        /\ HasMember(written[j], "params")
        /\ (written[j].o["params"] = EmptyArray) <=> ~HasMember(Forwardable[j], "params")
        /\ HasMember(Forwardable[j], "params")
              => written[j].o["params"] = Forwardable[j].o["params"]

\* C3, amended: a written frame has no jsonrpc and has params; its params is
\* the empty array when the submitted frame had none, and is the submitted
\* frame's params, unchanged, when it had one (an empty array included).
C3_WrittenShape ==
    \A j \in 1..Len(written) :
        /\ ~HasMember(written[j], "jsonrpc")
        /\ HasMember(written[j], "params")
        /\ ~HasMember(Forwardable[j], "params")
              => written[j].o["params"] = EmptyArray
        /\ HasMember(Forwardable[j], "params")
              => written[j].o["params"] = Forwardable[j].o["params"]

\* C3's case: a frame with jsonrpc and no params, and a frame with params,
\* have both been written.
C3_Witness ==
    /\ Len(written) = 2
    /\ HasMember(Forwardable[1], "jsonrpc")
    /\ ~HasMember(Forwardable[1], "params")
    /\ HasMember(Forwardable[2], "params")
    /\ Forwardable[2].o["params"] # EmptyArray

\* C4: every frame handed to the RPC engine has jsonrpc "2.0", does not have
\* both result and error, and has no null id; and every object frame the
\* peer sent is handed over.
C4_DeliveredShape ==
    \A i \in 1..Len(delivered) :
        /\ (framed[i].kind = "frame" /\ framed[i].v.t = "obj")
              => delivered[i].ret = "ok"
        /\ delivered[i].ret = "ok" =>
              /\ HasMember(delivered[i].msg, "jsonrpc")
              /\ delivered[i].msg.o["jsonrpc"] = JStr("2.0")
              /\ ~(HasMember(delivered[i].msg, "result")
                    /\ HasMember(delivered[i].msg, "error"))
              /\ ~(HasMember(delivered[i].msg, "id")
                    /\ delivered[i].msg.o["id"] = JNull)

\* C4's case: a frame with result, error and a null id, and a frame with
\* another jsonrpc version, have been handed over.
C4_Witness ==
    /\ Len(delivered) = 2
    /\ framed[1].kind = "frame"
    /\ HasMember(framed[1].v, "result")
    /\ HasMember(framed[1].v, "error")
    /\ HasMember(framed[1].v, "id") /\ framed[1].v.o["id"] = JNull
    /\ framed[2].kind = "frame"
    /\ framed[2].v = InOldVersion
    /\ delivered[1].ret = "ok" /\ delivered[2].ret = "ok"

\* C5: a response whose error member is an error object is handed to the RPC
\* engine with that error, also when the frame carries a result member.
C5_ServerErrorSurfaces ==
    \A i \in 1..Len(delivered) :
        (/\ framed[i].kind = "frame"
         /\ HasMember(framed[i].v, "error")
         /\ framed[i].v.o["error"] # JNull)
        => /\ delivered[i].ret = "ok"
           /\ HasMember(delivered[i].msg, "error")
           /\ delivered[i].msg.o["error"] = framed[i].v.o["error"]

\* The rewrites of the adapter's two tables, applied to one frame: a frame
\* they do not name passes through unchanged.
TableOutbound(f) ==
    IF f.t # "obj" THEN f
    ELSE LET keys == ((DOMAIN f.o) \ {"jsonrpc"}) \cup {"params"} IN
         JObj([k \in keys |-> IF k \in DOMAIN f.o THEN f.o[k] ELSE EmptyArray])
TableInbound(f) ==
    IF f.t # "obj" THEN f
    ELSE LET drop == (IF "result" \in DOMAIN f.o THEN {"error"} ELSE {})
                     \cup (IF "id" \in DOMAIN f.o /\ f.o["id"] = JNull
                           THEN {"id"} ELSE {})
             keys == ((DOMAIN f.o) \ drop) \cup {"jsonrpc"}
         IN JObj([k \in keys |-> IF k = "jsonrpc" THEN JStr("2.0") ELSE f.o[k]])

\* C6: the frames written are, in submission order, the rewritten forms of
\* the submitted frames that are not "update" frames; the frames handed to
\* the RPC engine are, in receipt order, one rewritten frame per frame the
\* framer yielded; each rewrite is that of its own frame alone.
C6_OrderPreserved ==
    /\ Len(written) = Len(Forwardable)
    /\ \A j \in 1..Len(written) : written[j] = TableOutbound(Forwardable[j])
    /\ Len(delivered) = Len(framed)
    /\ \A i \in 1..Len(delivered) :
          framed[i].kind = "frame"
              => /\ delivered[i].ret = "ok"
                 /\ delivered[i].msg = TableInbound(framed[i].v)


OptionalFields == {f \in FieldNames : FieldTy(f).c = "Option"}
TaggedUuid(u) == JArr(<<JStr("uuid"), JStr(UuidToString(u))>>)

\* C7: from_map(to_map(r)) succeeds and equals r, for every record r,
\* records with absent optional fields and with _uuid or _version set
\* included.
C7_RecordRoundTrip ==
    recPc = "parsed" => (recBack.ok /\ recBack.val = rec)

\* C8: to_map(r) has no key for an optional field of r that is None.
C8_AbsentFieldOmitted ==
    recPc \in {"mapped", "parsed"} =>
        \A f \in OptionalFields : ~rec[f].some => f \notin DOMAIN recMap

\* C9: to_map(r) holds "_uuid" (and "_version") with the tagged value
\* ["uuid", u] when r's _uuid (or _version) is set to u.
C9_ImplicitFieldsInMap ==
    recPc \in {"mapped", "parsed"} =>
        \A f \in ImplicitFields :
            rec[f].some => (f \in DOMAIN recMap /\ recMap[f] = TaggedUuid(rec[f].val))

\* The number of times x occurs in the sequence q.
Occurrences(q, x) == Cardinality({i \in 1..Len(q) : q[i] = x})
SameUpToOrder(p, q) ==
    /\ Len(p) = Len(q)
    /\ \A i \in 1..Len(p) : Occurrences(p, p[i]) = Occurrences(q, p[i])

\* Two OVSDB values that differ at most in the order of the set's elements
\* or of the map's pairs.
SameValue(v, w) ==
    /\ v.kind = w.kind
    /\ CASE v.kind = "Atom" -> v.atom = w.atom
         [] v.kind = "Set" -> SameUpToOrder(v.set, w.set)
         [] v.kind = "Map" -> SameUpToOrder(v.map, w.map)

\* The reals of v are finite doubles.
IsFiniteAtom(a) == a.k = "Real" => a.r.fin
AllRealsFinite(v) ==
    CASE v.kind = "Atom" -> IsFiniteAtom(v.atom)
      [] v.kind = "Set" -> \A i \in 1..Len(v.set) : IsFiniteAtom(v.set[i])
      [] v.kind = "Map" -> \A i \in 1..Len(v.map) :
                              IsFiniteAtom(v.map[i][1]) /\ IsFiniteAtom(v.map[i][2])

\* C10 as stated: decoding the JSON that encoding v produced gives back v,
\* up to the order of set elements and map pairs, for every OVSDB value v
\* (an OVSDB real is a JSON number, so its double is finite).
C10_ValueRoundTrip ==
    (valuePc = "decoded" /\ AllRealsFinite(value)) =>
        (valueBack.some /\ SameValue(valueBack.val, value))

\* C10, amended: for every OVSDB value v, decoding the JSON that encoding v
\* produced gives back v itself, elements and pairs in the same order, when
\* v is an atom, a map or a set of length other than 1; a set of length 1
\* comes back as its element, the bare atom.
C10_RoundTripButSingleton ==
    (valuePc = "decoded" /\ AllRealsFinite(value)) =>
        IF value.kind = "Set" /\ Len(value.set) = 1
        THEN valueBack = Some(VAtom(value.set[1]))
        ELSE valueBack = Some(value)

\* C10's case: a set holding one UUID has been encoded, as the bare atom,
\* and decoded.
C10_Witness ==
    /\ valuePc = "decoded"
    /\ value = VSet(<<AUuid(Uuid1)>>)
    /\ valueJson = TaggedUuid(Uuid1)
    /\ valueBack = Some(VAtom(AUuid(Uuid1)))

----------------------------------------------------------------------------
(* Properties of the typed conversions. *)

\* The wire form of the atom x of the primitive type T.
WireAtomOf(T, x) ==
    CASE T.c = "String" -> JStr(x)
      [] T.c = "i64" -> JInt(x)
      [] T.c = "f64" -> JFloat(x.x)
      [] T.c = "bool" -> JBool(x)
      [] T.c = "Uuid" -> TaggedUuid(x)

IsPrimitive(T) == T.c \in {"String", "i64", "f64", "bool", "Uuid"}

\* The values of the primitive type T that occur on the wire or in a Vec.
ValuesOf(T) ==
    CASE T.c = "String" -> {"a", "b", "test", "name", "bara", "global", "5"}
      [] T.c = "i64" -> {0, 1, 5}
      [] T.c = "f64" -> {Finite(1)}
      [] T.c = "bool" -> BOOLEAN
      [] T.c = "Uuid" -> {Uuid1, Uuid2}

\* The JSON a is the wire form of an atom of type T, and the atom it is.
Accepted(T, a) == \E x \in ValuesOf(T) : WireAtomOf(T, x) = a
AtomValue(T, a) == CHOOSE x \in ValuesOf(T) : WireAtomOf(T, x) = a

IsTagged(json, tag) ==
    /\ json.t = "arr"
    /\ Len(json.a) = 2
    /\ json.a[1] = JStr(tag)
    /\ json.a[2].t = "arr"

\* json is one of the forms of a set of T: [], null, ["set", [...]], or a
\* bare atom of T; and the elements that form lists.
IsSetForm(T, json) ==
    \/ json = JNull
    \/ json = EmptyArray
    \/ IsTagged(json, "set")
    \/ Accepted(T, json)
ElementsOfSetForm(json) ==
    IF json = JNull \/ json = EmptyArray THEN <<>>
    ELSE IF IsTagged(json, "set") THEN json.a[2].a
    ELSE <<json>>

\* C11: each of [], null and ["set", []] decodes into a sequence field as the
\* empty sequence; a bare atom a of the element type, and ["set", [a]], both
\* decode as the sequence [a]; ["set", [a1, ..., an]] decodes as the n
\* elements in wire order.
C11_SetFormsDecode ==
    (/\ convPc = "decoded"
     /\ convTy.c = "Vec"
     /\ IsSetForm(convTy.of, convIn)
     /\ \A i \in 1..Len(ElementsOfSetForm(convIn)) :
            Accepted(convTy.of, ElementsOfSetForm(convIn)[i]))
    => convOut = Some([i \in 1..Len(ElementsOfSetForm(convIn)) |->
                         AtomValue(convTy.of, ElementsOfSetForm(convIn)[i])])

\* C11's case: a bare UUID atom has been decoded into a Vec<Uuid>, as the
\* sequence of that one UUID.
C11_Witness ==
    /\ convPc = "decoded"
    /\ convTy = TVec(TUuid)
    /\ convIn = TaggedUuid(Uuid1)
    /\ convOut = Some(<<Uuid1>>)

\* The elements of the sequence x of type Vec<T> are atoms with a JSON form.
AllFinite(T, x) == T.c = "f64" => \A i \in 1..Len(x) : x[i].fin

\* The JSON entries of the map m of type HashMap<String, String>.
WireEntries(m) == {JArr(<<JStr(p[1]), JStr(p[2])>>) : p \in m}

\* C12: a sequence of atoms is encoded by its length alone: [] for length 0,
\* the bare atom for length 1 (a UUID as ["uuid", u]), ["set", [a1, ..., an]]
\* in sequence order for length 2 or more; a map is encoded as
\* ["map", [[k, v], ...]] with one pair per entry, also when it is empty.
C12_EncodeByLength ==
    /\ (/\ convPc = "encoded"
        /\ convTy.c = "Vec"
        /\ IsPrimitive(convTy.of)
        /\ AllFinite(convTy.of, convIn))
       => convOut =
            Some(IF Len(convIn) = 0 THEN EmptyArray
                 ELSE IF Len(convIn) = 1 THEN WireAtomOf(convTy.of, convIn[1])
                 ELSE JArr(<<JStr("set"),
                             JArr([i \in 1..Len(convIn) |->
                                     WireAtomOf(convTy.of, convIn[i])])>>))
    /\ (convPc = "encoded" /\ convTy = THashMap(TString, TString))
       => /\ convOut.some
          /\ IsTagged(convOut.val, "map")
          /\ Len(convOut.val.a[2].a) = Cardinality(convIn)
          /\ {convOut.val.a[2].a[i] : i \in 1..Len(convOut.val.a[2].a)}
                = WireEntries(convIn)

\* C12's case: a Vec<Uuid> of length 1 has been encoded as the bare tagged
\* UUID.
C12_Witness ==
    /\ convPc = "encoded"
    /\ convTy = TVec(TUuid)
    /\ convIn = <<Uuid1>>
    /\ convOut = Some(TaggedUuid(Uuid1))

\* What decoding json into the type T gives, by the rules for each kind of
\* type: an atom of T as itself; any form of a set, into a sequence, as its
\* elements in order; ["map", [[k, v], ...]], into a map, as its entries, a
\* later pair replacing an earlier one with the same key; into an optional
\* T, what T gives; nothing otherwise.
RECURSIVE Decoded(_, _)
DecodedSeq(T, json) ==
    LET elems == ElementsOfSetForm(json) IN
    IF IsSetForm(T.of, json)
       /\ \A i \in 1..Len(elems) : Accepted(T.of, elems[i])
    THEN Some([i \in 1..Len(elems) |-> AtomValue(T.of, elems[i])])
    ELSE None
IsEntry(T, pair) ==
    /\ pair.t = "arr"
    /\ Len(pair.a) = 2
    /\ Accepted(T.key, pair.a[1])
    /\ Accepted(T.of, pair.a[2])
DecodedMap(T, json) ==
    IF IsTagged(json, "map")
       /\ \A i \in 1..Len(json.a[2].a) : IsEntry(T, json.a[2].a[i])
    THEN LET pairs == json.a[2].a
             last == {i \in 1..Len(pairs) :
                        \A j \in (i + 1)..Len(pairs) : pairs[j].a[1] # pairs[i].a[1]}
         IN Some({<<AtomValue(T.key, pairs[i].a[1]), AtomValue(T.of, pairs[i].a[2])>> :
                    i \in last})
    ELSE None
Decoded(T, json) ==
    CASE IsPrimitive(T) ->
            IF Accepted(T, json) THEN Some(AtomValue(T, json)) ELSE None
      [] T.c = "Option" ->
            IF Decoded(T.of, json).some THEN Some(Some(Decoded(T.of, json).val))
            ELSE None
      [] T.c = "Vec" -> DecodedSeq(T, json)
      [] T.c = "HashMap" -> DecodedMap(T, json)

\* The zero value of a type.
Zero(T) ==
    CASE T.c = "String" -> ""
      [] T.c = "i64" -> 0
      [] T.c = "f64" -> [fin |-> TRUE, x |-> 0]
      [] T.c = "bool" -> FALSE
      [] T.c = "Option" -> [some |-> FALSE]
      [] T.c = "Vec" -> <<>>
      [] T.c = "HashMap" -> {}

\* The declared fields of the row m whose entry does not decode to the
\* field's type.
Undecodable(m) ==
    {f \in FieldNames \cap DOMAIN m : ~Decoded(FieldTy(f), m[f]).some}

\* The UUID of an entry of the form ["uuid", <uuid>], if it has that form.
IsTaggedUuid(json) == \E u \in {Uuid1, Uuid2} : json = TaggedUuid(u)
UuidOf(json) == CHOOSE u \in {Uuid1, Uuid2} : json = TaggedUuid(u)

\* C13: from_map(m) starts from new(): when every declared field present in
\* m decodes, the result is a record in which a declared field absent from m
\* has its zero value, a declared field present in m has the decoded value,
\* _uuid and _version are the UUIDs of m's tagged entries and are empty
\* when m has no such entry or one of another form; a key of m that names no
\* declared field changes nothing.
C13_FromMapStartsFromNew ==
    (recPc = "parsed" /\ Undecodable(recMap) = {}) =>
        /\ recBack.ok
        /\ \A f \in FieldNames :
              recBack.val[f] = IF f \in DOMAIN recMap
                               THEN Decoded(FieldTy(f), recMap[f]).val
                               ELSE Zero(FieldTy(f))
        /\ \A f \in ImplicitFields :
              recBack.val[f] = IF f \in DOMAIN recMap /\ IsTaggedUuid(recMap[f])
                               THEN [some |-> TRUE, val |-> UuidOf(recMap[f])]
                               ELSE [some |-> FALSE]
        /\ DOMAIN recBack.val = FieldNames \cup ImplicitFields

\* C13's case: a row with _uuid and connections, and no other key, has been
\* turned into a record.
C13_Witness ==
    /\ recPc = "parsed"
    /\ DOMAIN recMap = {"_uuid", "connections"}
    /\ recMap["_uuid"] = TaggedUuid(Uuid1)
    /\ recMap["connections"] = TaggedUuid(Uuid1)
    /\ recBack.ok
    /\ recBack.val["_uuid"] = Some(Uuid1)
    /\ recBack.val["connections"] = <<Uuid1>>
    /\ recBack.val["nb_cfg"] = 0
    /\ recBack.val["_version"] = None

\* C14: when a declared field present in the row holds a value that does not
\* decode to the field's type, from_map returns a failure naming such a
\* field, and no record; a null under a field that is neither optional nor a
\* sequence is such a value.
C14_FailureNamesField ==
    /\ (recPc = "parsed" /\ Undecodable(recMap) # {})
          => (~recBack.ok /\ recBack.err \in Undecodable(recMap))
    /\ (recPc = "parsed" /\ "nb_cfg" \in DOMAIN recMap /\ recMap["nb_cfg"] = JNull)
          => (~recBack.ok /\ recBack.err \in {"nb_cfg"} \cup Undecodable(recMap))

\* C14's case: a row with a null under nb_cfg has been refused, the failure
\* naming nb_cfg.
C14_Witness ==
    /\ recPc = "parsed"
    /\ DOMAIN recMap = {"nb_cfg", "hv_cfg"}
    /\ recMap["nb_cfg"] = JNull
    /\ recBack = [ok |-> FALSE, err |-> "nb_cfg"]

\* The value x of type T converts to an atom: a primitive does, an optional
\* does when it is present and its content does, a sequence or a map does
\* not.
RECURSIVE ConvertsToAtom(_, _)
ConvertsToAtom(T, x) ==
    CASE IsPrimitive(T) -> TRUE
      [] T.c = "Option" -> x.some /\ ConvertsToAtom(T.of, x.val)
      [] OTHER -> FALSE

\* C15: encoding a map in which some key or value does not convert to an
\* atom fails; it does not produce a value, the empty map in particular.
C15_MapEncodeFails ==
    (/\ convPc = "encoded"
     /\ convTy.c = "HashMap"
     /\ \E p \in convIn : \/ ~ConvertsToAtom(convTy.key, p[1])
                          \/ ~ConvertsToAtom(convTy.of, p[2]))
    => ~convOut.some

\* C16: decoding ["set", [...]] into a sequence fails when some element is
\* no atom of the element type, and decoding ["map", [...]] into a map fails
\* when some pair is no entry of the map's types; a sequence that is decoded
\* has one element for each element on the wire; a map on the wire fails
\* for every type that is not a map, and a set on the wire, in any of its
\* forms, fails for a map.
C16_CollectionsFailWhole ==
    convPc = "decoded" =>
        /\ (/\ convTy.c = "Vec"
            /\ IsTagged(convIn, "set")
            /\ \E i \in 1..Len(convIn.a[2].a) : ~Accepted(convTy.of, convIn.a[2].a[i]))
           => ~convOut.some
        /\ (/\ convTy.c = "HashMap"
            /\ IsTagged(convIn, "map")
            /\ \E i \in 1..Len(convIn.a[2].a) : ~IsEntry(convTy, convIn.a[2].a[i]))
           => ~convOut.some
        /\ (convTy.c = "Vec" /\ IsTagged(convIn, "set") /\ convOut.some)
           => Len(convOut.val) = Len(convIn.a[2].a)
        /\ (convTy.c # "HashMap" /\ IsTagged(convIn, "map")) => ~convOut.some
        /\ (/\ convTy.c = "HashMap"
            /\ (convIn = JNull \/ convIn = EmptyArray \/ IsTagged(convIn, "set")))
           => ~convOut.some

\* C16's case: a set of a string and an integer has been decoded into a
\* Vec<String>, and the decode failed.
C16_Witness ==
    /\ convPc = "decoded"
    /\ convTy = TVec(TString)
    /\ convIn = JArr(<<JStr("set"), JArr(<<JStr("a"), JInt(1)>>)>>)
    /\ convOut = None

----------------------------------------------------------------------------
(* Properties of the framer's buffer and of its errors. *)

IsPrefixOf(p, q) == Len(p) <= Len(q) /\ SubSeq(q, 1, Len(p)) = p

\* buf holds a proper prefix of a document and nothing else.
ProperPrefixOfDoc(buf) ==
    /\ buf # <<>>
    /\ \E d \in ValidDocs : Len(buf) < Len(d) /\ IsPrefixOf(buf, d)

\* C17: a decode call on a buffer that holds only a proper prefix of a
\* document, or nothing, returns "need more" and leaves the buffer as it
\* was; the bytes read after it are appended to those bytes.
C17_PrefixNeedsMore ==
    (lastDecode # "init" /\ (srcBefore = <<>> \/ ProperPrefixOfDoc(srcBefore)))
    => /\ lastDecode = "none"
       /\ IsPrefixOf(srcBefore, src)
       /\ ~readable => src = srcBefore

\* C17's case: decode was called on the two bytes `[1`, asked for more, and
\* the rest of the document has been read in behind them.
C17_Witness ==
    /\ lastDecode = "none"
    /\ srcBefore = <<"[", "1">>
    /\ src = <<"[", "1", ",", "2", "]">>
    /\ readable

\* buf starts with bytes that begin no JSON value: a `]`, or a `[` followed
\* by a byte that starts no value.
StartsWithGarbage(buf) ==
    /\ buf # <<>>
    /\ \/ buf[1] = "]"
       \/ Len(buf) >= 2 /\ buf[1] = "[" /\ buf[2] = "x"

\* C18: a decode call on a buffer whose bytes are not JSON, whatever may
\* follow them, returns an error, not "need more" and not a value; receive
\* returns that error to the RPC engine as a transport error, and the frames
\* it delivers are values decode returned.
C18_InvalidJsonIsError ==
    /\ (lastDecode # "init" /\ StartsWithGarbage(srcBefore)) => lastDecode = "err"
    /\ \A i \in 1..Len(delivered) :
          /\ framed[i].kind = "ioerr" => delivered[i] = [ret |-> "err", err |-> "Io"]
          /\ delivered[i].ret = "ok" =>
                (i <= Len(yielded) /\ framed[i] = [kind |-> "frame", v |-> yielded[i]])

\* C18's case: decode has failed on bytes that are not JSON and receive has
\* returned the error, after a frame was delivered.
C18_Witness ==
    /\ lastDecode = "err"
    /\ StartsWithGarbage(srcBefore)
    /\ Len(delivered) = 2
    /\ delivered[1].ret = "ok"
    /\ delivered[2] = [ret |-> "err", err |-> "Io"]
    /\ receiverState = "failed"

----------------------------------------------------------------------------
(* Properties of the adapter's rewrites, member by member. *)

\* An inbound frame that needs no rewrite.
Clean(f) ==
    /\ HasMember(f, "jsonrpc") /\ f.o["jsonrpc"] = JStr("2.0")
    /\ ~(HasMember(f, "result") /\ HasMember(f, "error"))
    /\ ~(HasMember(f, "id") /\ f.o["id"] = JNull)

\* C19: an inbound frame that has jsonrpc "2.0", does not have result and
\* error together and has no null id is handed to the RPC engine with the
\* same members and values; and a frame that was handed over, received
\* again, is handed over as it is.
C19_CleanFramesUnchanged ==
    \A i \in 1..Len(delivered) :
        framed[i].kind = "frame" =>
            /\ Clean(framed[i].v)
                  => delivered[i] = [ret |-> "ok", msg |-> framed[i].v]
            /\ delivered[i].ret = "ok"
                  => receive([kind |-> "frame", v |-> delivered[i].msg]) = delivered[i]

\* C19's case: a clean frame with an error and an id has been handed over
\* unchanged, and a frame that was not clean has been handed over.
C19_Witness ==
    /\ Len(delivered) = 2
    /\ framed[1].kind = "frame"
    /\ Clean(framed[1].v)
    /\ HasMember(framed[1].v, "error") /\ HasMember(framed[1].v, "id")
    /\ delivered[1] = [ret |-> "ok", msg |-> framed[1].v]
    /\ framed[2].kind = "frame"
    /\ ~Clean(framed[2].v)
    /\ delivered[2].ret = "ok"

\* C20: a written frame has the submitted frame's members other than
\* jsonrpc and params, with their values, and beside them only params; a
\* frame handed to the RPC engine has the received frame's members other
\* than jsonrpc, error and id, with their values, and beside them only
\* jsonrpc and the received error and id; the error is there when the
\* received frame had an error and no result, the id when it had an id that
\* was not null.
C20_OnlyTabledRewrites ==
    /\ \A j \in 1..Len(written) :
          /\ written[j].t = "obj" /\ Forwardable[j].t = "obj"
          /\ (DOMAIN written[j].o) \ {"params"}
                = (DOMAIN Forwardable[j].o) \ {"jsonrpc", "params"}
          /\ \A k \in (DOMAIN written[j].o) \ {"params"} :
                written[j].o[k] = Forwardable[j].o[k]
    /\ \A i \in 1..Len(delivered) :
          delivered[i].ret = "ok" =>
            LET f == framed[i].v
                g == delivered[i].msg
            IN
            /\ f.t = "obj" /\ g.t = "obj"
            /\ (DOMAIN f.o) \ {"jsonrpc", "error", "id"} \subseteq DOMAIN g.o
            /\ (DOMAIN g.o) \ {"jsonrpc"} \subseteq DOMAIN f.o
            /\ \A k \in (DOMAIN g.o) \ {"jsonrpc"} : g.o[k] = f.o[k]
            /\ (HasMember(f, "error") /\ ~HasMember(f, "result"))
                  => HasMember(g, "error")
            /\ (HasMember(f, "id") /\ f.o["id"] # JNull) => HasMember(g, "id")

\* C20's case: a frame with a method and an id has been written, and a
\* frame with an error, no result and an id that is not null has been handed
\* over with both.
C20_Witness ==
    /\ Len(written) = 1
    /\ HasMember(written[1], "method") /\ HasMember(written[1], "id")
    /\ HasMember(Forwardable[1], "jsonrpc")
    /\ Len(delivered) = 1
    /\ framed[1].kind = "frame"
    /\ HasMember(framed[1].v, "error") /\ framed[1].v.o["error"] = ErrorObject
    /\ ~HasMember(framed[1].v, "result")
    /\ HasMember(framed[1].v, "id") /\ framed[1].v.o["id"] # JNull
    /\ delivered[1].ret = "ok"
    /\ HasMember(delivered[1].msg, "error") /\ HasMember(delivered[1].msg, "id")

----------------------------------------------------------------------------
(* Properties of the notifications. *)

\* A JSON value that is a table update: an object of objects.
IsTableUpdate(v) == v.t = "obj" /\ \A table \in DOMAIN v.o : v.o[table].t = "obj"

\* The table update m holds what the JSON object v holds.
SameTableUpdate(m, v) ==
    /\ DOMAIN m = DOMAIN v.o
    /\ \A table \in DOMAIN m :
          /\ DOMAIN m[table] = DOMAIN v.o[table].o
          /\ \A row \in DOMAIN m[table] : m[table][row] = v.o[table].o[row]

\* C21: params that are the two-element array [matcher, TableUpdate] decode
\* to a notification whose id is None for a null matcher and Some(matcher)
\* for a string, and whose message is the second element; params with
\* fewer than two elements, or with a matcher that is neither null nor a
\* string, are a failure.
C21_NotificationDecode ==
    (convPc = "deserialized" /\ convIn.t = "arr") =>
        /\ (/\ Len(convIn.a) = 2
            /\ convIn.a[1].t \in {"null", "str"}
            /\ IsTableUpdate(convIn.a[2]))
           => /\ convOut.ok
              /\ convOut.val.id = IF convIn.a[1].t = "null"
                                   THEN [some |-> FALSE]
                                   ELSE [some |-> TRUE, val |-> convIn.a[1].s]
              /\ SameTableUpdate(convOut.val.message, convIn.a[2])
        /\ Len(convIn.a) < 2 => ~convOut.ok
        /\ (Len(convIn.a) >= 1 /\ convIn.a[1].t \notin {"null", "str"}) => ~convOut.ok

\* C21's case: the params ["monitor1", table update] have been decoded to
\* a notification with id Some("monitor1").
C21_Witness ==
    /\ convPc = "deserialized"
    /\ convIn = JArr(<<JStr("monitor1"), TableUpdate1>>)
    /\ convOut.ok
    /\ convOut.val.id = Some("monitor1")
    /\ DOMAIN convOut.val.message = {"NB_Global"}

----------------------------------------------------------------------------
(* Frames that are no objects. *)

\* C22: a frame that is JSON and no object passes through the adapter
\* unchanged in both directions: send returns success and writes it,
\* receive hands it over, and neither aborts.
C22_NonObjectsPassThrough ==
    /\ senderState # "panicked"
    /\ receiverState # "panicked"
    /\ \A i \in 1..Len(submitted) : submitted[i].t # "obj" => sendResults[i] = "ok"
    /\ Len(written) = Len(Forwardable)
    /\ \A j \in 1..Len(written) :
          Forwardable[j].t # "obj" => written[j] = Forwardable[j]
    /\ \A i \in 1..Len(delivered) :
          (framed[i].kind = "frame" /\ framed[i].v.t # "obj")
              => delivered[i] = [ret |-> "ok", msg |-> framed[i].v]

----------------------------------------------------------------------------
(* Optional fields and the implicit fields in from_map. *)

\* The three wire forms of the empty set.
EmptySetForms == {EmptyArray, JNull, JArr(<<JStr("set"), EmptyArray>>)}

\* C23: an optional field present in the row is never decoded as absent:
\* it is Some(x) when the type inside decodes the value to x, and from_map
\* fails when the type inside does not decode it; so an empty set, in any
\* of its forms, under an optional field of an atom type makes from_map
\* fail, naming that field when no other field fails, and under an optional
\* sequence field gives Some of the empty sequence.
C23_OptionNeverAbsent ==
    recPc = "parsed" =>
        \A f \in OptionalFields \cap DOMAIN recMap :
            LET inner == Decoded(FieldTy(f).of, recMap[f]) IN
            /\ recBack.ok => (inner.some /\ recBack.val[f] = [some |-> TRUE, val |-> inner.val])
            /\ ~inner.some => ~recBack.ok
            /\ (recMap[f] \in EmptySetForms /\ IsPrimitive(FieldTy(f).of))
                  => /\ ~recBack.ok
                     /\ Undecodable(recMap) = {f} => recBack.err = f
            /\ (recMap[f] \in EmptySetForms /\ FieldTy(f).of.c = "Vec" /\ recBack.ok)
                  => recBack.val[f] = [some |-> TRUE, val |-> <<>>]

\* C23's case: a row with an empty set under the optional string field and
\* an empty set under the optional sequence field has been refused, the
\* failure naming the string field.
C23_Witness ==
    /\ recPc = "parsed"
    /\ DOMAIN recMap = {"name", "ssl"}
    /\ recMap["name"] = EmptyArray
    /\ recMap["ssl"] = EmptyArray
    /\ recBack = [ok |-> FALSE, err |-> "name"]

\* C24: from_map succeeds exactly when every declared field present in the
\* row decodes, whatever the row holds under _uuid and _version; a failure
\* names a declared field; and an entry under _uuid or _version that is no
\* ["uuid", <uuid>] leaves that field empty.
C24_ImplicitNeverFails ==
    recPc = "parsed" =>
        /\ recBack.ok <=> Undecodable(recMap) = {}
        /\ ~recBack.ok => recBack.err \in FieldNames
        /\ recBack.ok =>
              \A f \in ImplicitFields \cap DOMAIN recMap :
                  ~IsTaggedUuid(recMap[f]) => recBack.val[f] = [some |-> FALSE]

\* C24's case: a row with a UUID that does not parse under _uuid and an
\* array of the wrong length under _version has been turned into a record
\* with both fields empty.
C24_Witness ==
    /\ recPc = "parsed"
    /\ DOMAIN recMap = {"_uuid", "_version"}
    /\ recMap["_uuid"] = JArr(<<JStr("uuid"), JStr("not-a-uuid")>>)
    /\ recMap["_version"] = JArr(<<JStr("uuid")>>)
    /\ recBack.ok
    /\ recBack.val["_uuid"] = None
    /\ recBack.val["_version"] = None


====
